---- MODULE Spec2Model ----
(***************************************************************************)
(* Model of the status page application (src/app.py): the severity         *)
(* resolver get_status_color, the probe runner check_service_health, the   *)
(* aggregation pass monitor_services with its two callers (the background  *)
(* monitor_loop and the lazy refresh of the request handler index), the    *)
(* bounded window response_times and the 90 day timeline                   *)
(* generate_90_day_history.                                                *)
(*                                                                         *)
(* Units: probe response times are whole milliseconds; averages are kept   *)
(* in hundredths of a millisecond (round(x, 2) keeps two decimals).        *)
(* Wall-clock time (time.time()) is in whole seconds.                      *)
(***************************************************************************)
EXTENDS Integers, Sequences, FiniteSets, TLC

VARIABLES
    \* ---- shared state of the monitor (module globals, app.py 14-16)
    service_status,     \* dict: service name -> {'status', 'response_time'}
    response_times,     \* deque(maxlen=100) of pass averages
    last_check_time,    \* time.time() at the end of the last pass
    \* ---- environment and threads of the monitor
    now,                \* the wall clock, seconds
    pc,                 \* per thread: position in monitor_loop / index
    frame,              \* per thread: the locals of its monitor_services call
    pass_seq,           \* history: number of passes started so far
    written_by,         \* history: service name -> pass that stored the entry
    appended,           \* history: every sample ever appended to response_times
    \* ---- get_status_color
    status_ids,         \* the argument
    color,              \* the returned class
    \* ---- check_service_health
    outcome,            \* what requests.get did
    probe_result,       \* the returned dict
    \* ---- generate_90_day_history
    config,             \* what load_config returned
    today,              \* datetime.now()
    history             \* the returned list

monitorVars == <<service_status, response_times, last_check_time, now, pc,
                 frame, pass_seq, written_by, appended>>
severityVars == <<status_ids, color>>
probeVars == <<outcome, probe_result>>
timelineVars == <<config, today, history>>
vars == <<service_status, response_times, last_check_time, now, pc, frame,
          pass_seq, written_by, appended, status_ids, color, outcome,
          probe_result, config, today, history>>

\* Python's None where a number is expected (no number of the model is negative).
None == 0 - 1

\* Python's truth value of a number or None.
Truthy(x) == x # None /\ x # 0

\* A result slot before the function has returned.
NotCalled == "not-called"
NoResult == [called |-> FALSE]

Range(s) == {s[i] : i \in DOMAIN s}

\* All sequences over S of length at most n.
SeqsUpTo(S, n) == UNION {[1..k -> S] : k \in 0..n}

(***************************************************************************)
(* The parts of the state a specification does not use stay at these rest   *)
(* values.                                                                 *)
(***************************************************************************)

\* time.time() when the process starts; last_check_time starts at 0.
StartTime == 1000

BgThread == "bg"
\* One request thread stands for the request threads of the server.
Handlers == {"h1"}
Threads == {BgThread} \cup Handlers

EmptyDict == [x \in {} |-> 0]

IdleFrame == [id |-> 0, i |-> 0, total_response_time |-> 0,
              successful_checks |-> 0, wake |-> 0]

MonitorIdle ==
    /\ service_status = EmptyDict
    /\ response_times = <<>>
    /\ last_check_time = 0
    /\ now = StartTime
    /\ pc = [t \in Threads |-> "off"]
    /\ frame = [t \in Threads |-> IdleFrame]
    /\ pass_seq = 0
    /\ written_by = EmptyDict
    /\ appended = <<>>

SeverityIdle ==
    /\ status_ids = <<>>
    /\ color = NotCalled

ProbeIdle ==
    /\ outcome = NoResult
    /\ probe_result = NoResult

TimelineIdle ==
    /\ config = NoResult
    /\ today = NoResult
    /\ history = <<>>

(***************************************************************************)
(* Severity resolver: get_status_color (app.py 59-73)                      *)
(***************************************************************************)

\* Bounds of the inputs: ids 0..MaxStatusId (0 and 7 lie outside the id
\* scheme 1..6), lists of at most MaxIds ids.
MaxStatusId == 7
MaxIds == 3

\* app.py 65-66
priority_map ==
    [id \in {4, 3, 5, 2, 6, 1} |->
        CASE id = 4 -> "major-outage"
          [] id = 3 -> "partial-outage"
          [] id = 5 -> "maintenance"
          [] id = 2 -> "degraded"
          [] id = 6 -> "investigating"
          [] id = 1 -> "operational"]

RECURSIVE SeqMinFrom(_, _)
SeqMinFrom(s, m) ==
    IF s = <<>> THEN m
    ELSE SeqMinFrom(Tail(s), IF Head(s) < m THEN Head(s) ELSE m)

\* A plausible slip for min(): take the first id of the list.
FirstId(s) == Head(s)

\* Python's min(status_ids) on a non-empty list (app.py 68).
SeqMin(s) == SeqMinFrom(Tail(s), Head(s))

\* The loop of app.py 69-71, started with highest_priority = hp.
RECURSIVE ScanPriority(_, _)
ScanPriority(s, hp) ==
    IF s = <<>> THEN hp
    ELSE ScanPriority(Tail(s),
            IF Head(s) \in {4, 3, 5, 2, 6} /\ Head(s) < hp THEN Head(s) ELSE hp)

\* app.py 59-73
get_status_color(ids) ==
    IF ids = <<>> THEN "operational"
    ELSE LET highest_priority == ScanPriority(ids, SeqMin(ids))
         IN  IF highest_priority \in DOMAIN priority_map
             THEN priority_map[highest_priority]
             ELSE "operational"

SeverityInit ==
    /\ status_ids \in SeqsUpTo(0..MaxStatusId, MaxIds)
    /\ color = NotCalled

\* One call color_class = get_status_color(status_ids) (app.py 292, 308).
ResolveSeverity ==
    /\ color = NotCalled
    /\ color' = get_status_color(status_ids)
    /\ UNCHANGED <<status_ids, monitorVars, probeVars, timelineVars>>

SeveritySpecInit == SeverityInit /\ MonitorIdle /\ ProbeIdle /\ TimelineIdle

\* get_status_color called once on each list of the bounded input space.
SpecSeverity == SeveritySpecInit /\ [][ResolveSeverity]_vars

SeverityClasses == {"operational", "degraded", "partial-outage", "major-outage",
                    "maintenance", "investigating"}

\* The ranking the documentation states (app.py 64): the ids from the most
\* to the least severe.
RankingOrder == <<4, 3, 5, 2, 6, 1>>

RECURSIVE FirstRanked(_, _)
FirstRanked(S, i) ==
    IF i > Len(RankingOrder) THEN "operational"
    ELSE IF RankingOrder[i] \in S THEN priority_map[RankingOrder[i]]
    ELSE FirstRanked(S, i + 1)

\* The ids of S in ascending order.
RECURSIVE AscendingSeq(_)
AscendingSeq(S) ==
    IF S = {} THEN <<>>
    ELSE LET m == CHOOSE x \in S : \A y \in S : x <= y
         IN  <<m>> \o AscendingSeq(S \ {m})

\* C3: for ids drawn from 1..6 the resolver returns the class of the
\* highest-ranked id present under Major(4) > Partial(3) > Maintenance(5) >
\* Degraded(2) > Investigating(6) > Operational(1), Operational for no id.
C3_HighestRankedWins ==
    (color # NotCalled /\ Range(status_ids) \subseteq 1..6)
        => color = FirstRanked(Range(status_ids), 1)

\* C4: the result depends only on the set of ids (any reordering and any
\* duplication of the list gives the result of the ascending list of its
\* set), and it is one of the six classes, also for ids outside 1..6.
C4_FunctionOfTheSet ==
    color # NotCalled
        => /\ color \in SeverityClasses
           /\ color = get_status_color(AscendingSeq(Range(status_ids)))

\* C4 witness: a resolved list that is out of order, repeats an id and holds
\* an id outside 1..6.
C4_Witness ==
    /\ status_ids = <<7, 3, 3>>
    /\ color = "partial-outage"

(***************************************************************************)
(* Probe runner: check_service_health (app.py 86-106)                      *)
(***************************************************************************)

\* What requests.get(url, timeout=5) can do: return a response with some
\* status code after some elapsed time, or raise.  An exception is named by
\* its class; ExcBases gives the classes it is an instance of (the bases of
\* requests.exceptions, and two exceptions from outside requests).
StatusCodes == 100..599
ElapsedMs == {1, 120, 4999, 7500}
ExcClasses == {"ReadTimeout", "ConnectTimeout", "ConnectionError", "SSLError",
               "TooManyRedirects", "InvalidURL", "ValueError", "RuntimeError"}

ExcBases(exc) ==
    CASE exc = "ReadTimeout" ->
            {"ReadTimeout", "Timeout", "RequestException", "Exception"}
      [] exc = "ConnectTimeout" ->
            {"ConnectTimeout", "ConnectionError", "Timeout",
             "RequestException", "Exception"}
      [] exc = "ConnectionError" ->
            {"ConnectionError", "RequestException", "Exception"}
      [] exc = "SSLError" ->
            {"SSLError", "ConnectionError", "RequestException", "Exception"}
      [] exc = "TooManyRedirects" ->
            {"TooManyRedirects", "RequestException", "Exception"}
      [] exc = "InvalidURL" ->
            {"InvalidURL", "RequestException", "ValueError", "Exception"}
      [] exc = "ValueError" -> {"ValueError", "Exception"}
      [] exc = "RuntimeError" -> {"RuntimeError", "Exception"}

Response(code, ms) == [kind |-> "response", status_code |-> code, elapsed |-> ms]
Raises(exc) == [kind |-> "raise", exc |-> exc]

ProbeOutcomes ==
    {Response(c, ms) : c \in StatusCodes, ms \in ElapsedMs}
        \cup {Raises(e) : e \in ExcClasses}

ProbeResult(st, rt) == [status |-> st, response_time |-> rt]

\* A plausible slip: every 2xx code counted as a success.
classify_status_code_2xx(status_code, response_time) ==
    IF status_code \in 200..299 THEN ProbeResult("operational", response_time)
    ELSE IF status_code \in {500, 502, 503, 504}
         THEN ProbeResult("major", response_time)
         ELSE ProbeResult("degraded", response_time)

\* app.py 95-100
classify_status_code(status_code, response_time) ==
    IF status_code = 200 THEN ProbeResult("operational", response_time)
    ELSE IF status_code \in {500, 502, 503, 504}
         THEN ProbeResult("major", response_time)
         ELSE ProbeResult("degraded", response_time)

\* A plausible slip: the except clauses in another order.
ExceptClausesConnectionFirst == <<"ConnectionError", "Timeout", "Exception">>

\* The except clauses of app.py 101-105, in the order Python tries them.
ExceptClauses == <<"Timeout", "ConnectionError", "Exception">>

\* The first clause that catches exc, 0 when none does.
RECURSIVE FirstClause(_, _, _)
FirstClause(clauses, exc, i) ==
    IF i > Len(clauses) THEN 0
    ELSE IF clauses[i] \in ExcBases(exc) THEN i
    ELSE FirstClause(clauses, exc, i + 1)

\* app.py 86-106.  A fault that no clause catches leaves the function.
check_service_health(service_name, url, out) ==
    IF out.kind = "response"
    THEN classify_status_code(out.status_code, out.elapsed)
    ELSE LET i == FirstClause(ExceptClauses, out.exc, 1)
         IN  IF i = 0 THEN [raised |-> out.exc]
             ELSE CASE ExceptClauses[i] = "Timeout" -> ProbeResult("degraded", 5000)
                    [] ExceptClauses[i] = "ConnectionError" -> ProbeResult("major", None)
                    [] ExceptClauses[i] = "Exception" -> ProbeResult("investigating", None)

ProbeInit ==
    /\ outcome \in ProbeOutcomes
    /\ probe_result = NoResult

\* One call result = check_service_health(service_name, url) (app.py 117).
Probe ==
    /\ probe_result = NoResult
    /\ probe_result' = check_service_health("API", "https://royalguard-api.up.railway.app/", outcome)
    /\ UNCHANGED <<outcome, monitorVars, severityVars, timelineVars>>

ProbeSpecInit == ProbeInit /\ MonitorIdle /\ SeverityIdle /\ TimelineIdle

\* check_service_health called once on each outcome of the request.
SpecProbe == ProbeSpecInit /\ [][Probe]_vars

Classified(r) == DOMAIN r = {"status", "response_time"}

\* C5 as stated: every 2xx code gives Operational.
C5_Every2xxOperational ==
    (probe_result # NoResult /\ outcome.kind = "response"
        /\ outcome.status_code \in 200..299)
        => (Classified(probe_result) /\ probe_result.status = "operational")

\* C5 (amended): for a probe that receives a response, code 200 gives
\* operational, each of 500, 502, 503, 504 gives major and every other code
\* (the other 2xx codes included) gives degraded; the response time is the
\* measured one, never None.
C5_StatusCodeClasses ==
    (probe_result # NoResult /\ outcome.kind = "response")
        => /\ Classified(probe_result)
           /\ probe_result.response_time = outcome.elapsed
           /\ probe_result.response_time # None
           /\ probe_result.status =
                IF outcome.status_code = 200 THEN "operational"
                ELSE IF outcome.status_code \in {500, 502, 503, 504} THEN "major"
                ELSE "degraded"

\* C5 witness: a probe answered with 503.
C5_Witness ==
    /\ outcome = Response(503, 120)
    /\ probe_result = ProbeResult("major", 120)

\* C6: whatever the request raises, the probe returns a classified result:
\* degraded with 5000 for a timeout, major with None for a connection that
\* is not established, investigating with None for any other failure.
C6_FaultsClassified ==
    probe_result # NoResult
        => /\ Classified(probe_result)
           /\ outcome.kind = "raise" =>
                probe_result =
                    IF "Timeout" \in ExcBases(outcome.exc)
                    THEN ProbeResult("degraded", 5000)
                    ELSE IF "ConnectionError" \in ExcBases(outcome.exc)
                    THEN ProbeResult("major", None)
                    ELSE ProbeResult("investigating", None)

\* C6 witness: a probe whose request timed out while connecting.
C6_Witness ==
    /\ outcome = Raises("ConnectTimeout")
    /\ probe_result = ProbeResult("degraded", 5000)

(***************************************************************************)
(* Status aggregator: monitor_services (app.py 108-129), its callers       *)
(* monitor_loop (app.py 453-460) and index (app.py 273-315), and the       *)
(* window response_times (app.py 14)                                       *)
(***************************************************************************)

\* Bounds: calls of monitor_services per behaviour, seconds of wall clock
\* after StartTime.
MaxPasses == 2
MaxElapsed == 61
\* The wall clock is observed at these distances.
TickSteps == {30, 31}

maxlen == 100               \* app.py 14
CheckInterval == 30         \* app.py 457
ErrorInterval == 60         \* app.py 460
StaleAfter == 30            \* app.py 314

\* app.py 78-83: the dict keeps insertion order.
endpoint_names == <<"API", "Discord Bot", "Database", "ROBLOX API">>
endpoint_url(name) ==
    CASE name = "API" -> "https://royalguard-api.up.railway.app/"
      [] name = "Discord Bot" -> "https://discord.com/api/v10/gateway"
      [] name = "Database" -> "https://royalguard-api.up.railway.app/"
      [] name = "ROBLOX API" -> "https://api.roblox.com/"

\* What load_config (app.py 24-37) can do when it opens config.json: parse
\* it, find no file (FileNotFoundError, caught: the default configuration),
\* or fail to parse it (json.JSONDecodeError, not caught: propagates).
ConfigFileStates == {"valid", "missing", "malformed"}
load_config_raises(file) == file = "malformed"

\* What a probe meets in a pass of this specification: an answer 200 after
\* 120 ms, or no connection.
PassOutcomes == {Response(200, 120), Raises("ConnectionError")}

\* A plausible slip: a list that is never trimmed.
deque_append_unbounded(d, x) == Append(d, x)

\* deque(maxlen=100).append (app.py 14, 127): a full deque drops its oldest
\* element.
deque_append(d, x) ==
    IF Len(d) >= maxlen THEN Append(Tail(d), x) ELSE Append(d, x)

\* A plausible slip: the average over all endpoints, timed or not.
round2_avg_all(total, n) ==
    (2 * 100 * total + Len(endpoint_names)) \div (2 * Len(endpoint_names))

\* round(total_response_time / successful_checks, 2) (app.py 126), in
\* hundredths of a millisecond, for whole-millisecond totals.
round2_avg(total, n) == (2 * 100 * total + n) \div (2 * n)

\* A plausible slip: the store rebinds the dict to the one new entry.
dict_set_rebind(d, k, v) == [x \in {k} |-> v]

\* dict assignment d[k] = v
dict_set(d, k, v) == [x \in DOMAIN d \cup {k} |-> IF x = k THEN v ELSE d[x]]

\* monitor_services, app.py 120-122 and the step of the loop: the locals
\* after the result of one more endpoint.
count_result(f, result) ==
    LET counted == result.response_time # None
    IN  [f EXCEPT !.i = @ + 1,
                  !.total_response_time =
                      IF counted THEN @ + result.response_time ELSE @,
                  !.successful_checks = IF counted THEN @ + 1 ELSE @]

\* monitor_services, app.py 125-127: the window after the pass with locals f.
window_after(f, window) ==
    IF f.successful_checks > 0
    THEN deque_append(window, round2_avg(f.total_response_time,
                                         f.successful_checks))
    ELSE window

InPass(t) == pc[t] \in {"probe", "aggregate", "stamp"}

\* A request thread between two requests: before its first request, or after
\* it has answered one with a page ("responded") or with a failure ("failed").
AtRest(h) == pc[h] \in {"idle", "responded", "failed"}

MonitorInit ==
    /\ service_status = EmptyDict
    /\ response_times = <<>>
    /\ last_check_time = 0
    /\ now = StartTime
    /\ pc = [t \in Threads |-> IF t = BgThread THEN "loop" ELSE "idle"]
    /\ frame = [t \in Threads |-> IdleFrame]
    /\ pass_seq = 0
    /\ written_by = EmptyDict
    /\ appended = <<>>

otherVars == <<severityVars, probeVars, timelineVars>>

\* The wall clock advances.
Tick ==
    /\ \E d \in TickSteps :
        /\ now + d <= StartTime + MaxElapsed
        /\ now' = now + d
    /\ UNCHANGED <<service_status, response_times, last_check_time, pc, frame,
                   pass_seq, written_by, appended, otherVars>>

\* monitor_services, app.py 112-114: the endpoints are loaded and the locals
\* set.  thread t goes on to the loop over the endpoints.
EnterPass(t) ==
    /\ pass_seq < MaxPasses
    /\ pass_seq' = pass_seq + 1
    /\ frame' = [frame EXCEPT ![t] = [id |-> pass_seq + 1, i |-> 1,
                                       total_response_time |-> 0,
                                       successful_checks |-> 0, wake |-> 0]]
    /\ pc' = [pc EXCEPT ![t] = "probe"]

\* monitor_loop, app.py 454-456: the loop calls monitor_services, whose
\* get_health_endpoints (app.py 112, 77) loads the configuration.
BgStartPass ==
    /\ pc[BgThread] = "loop"
    /\ \E file \in ConfigFileStates : ~load_config_raises(file)
    /\ EnterPass(BgThread)
    /\ UNCHANGED <<service_status, response_times, last_check_time, now,
                   written_by, appended, otherVars>>

\* A plausible slip: the timestamp is set in a finally clause, fault or not.
BgPassFaultStamps ==
    /\ pc[BgThread] = "loop"
    /\ pass_seq < MaxPasses
    /\ \E file \in ConfigFileStates : load_config_raises(file)
    /\ pass_seq' = pass_seq + 1
    /\ pc' = [pc EXCEPT ![BgThread] = "sleep"]
    /\ frame' = [frame EXCEPT ![BgThread] =
                    [IdleFrame EXCEPT !.wake = now + ErrorInterval]]
    /\ last_check_time' = now
    /\ UNCHANGED <<service_status, response_times, now, written_by,
                   appended, otherVars>>

\* A plausible slip: the same sleep after a fault as after a pass.
BgPassFaultNoBackoff ==
    /\ pc[BgThread] = "loop"
    /\ pass_seq < MaxPasses
    /\ \E file \in ConfigFileStates : load_config_raises(file)
    /\ pass_seq' = pass_seq + 1
    /\ pc' = [pc EXCEPT ![BgThread] = "sleep"]
    /\ frame' = [frame EXCEPT ![BgThread] =
                    [IdleFrame EXCEPT !.wake = now + CheckInterval]]
    /\ UNCHANGED <<service_status, response_times, last_check_time, now,
                   written_by, appended, otherVars>>

\* monitor_loop, app.py 456, 458-460: load_config raises inside the pass;
\* the loop catches the fault and sleeps the longer interval.
BgPassFault ==
    /\ pc[BgThread] = "loop"
    /\ pass_seq < MaxPasses
    /\ \E file \in ConfigFileStates : load_config_raises(file)
    /\ pass_seq' = pass_seq + 1
    /\ pc' = [pc EXCEPT ![BgThread] = "sleep"]
    /\ frame' = [frame EXCEPT ![BgThread] =
                    [IdleFrame EXCEPT !.wake = now + ErrorInterval]]
    /\ UNCHANGED <<service_status, response_times, last_check_time, now,
                   written_by, appended, otherVars>>

\* A plausible slip: the loop ends one endpoint early.
ProbeStepLeavesEarly(t) ==
    /\ pc[t] = "probe"
    /\ \E out \in PassOutcomes :
        LET f == frame[t]
            service_name == endpoint_names[f.i]
            result == check_service_health(service_name,
                                           endpoint_url(service_name), out)
        IN  /\ service_status' = dict_set(service_status, service_name, result)
            /\ written_by' = dict_set(written_by, service_name, f.id)
            /\ frame' = [frame EXCEPT ![t] = count_result(f, result)]
            /\ pc' = [pc EXCEPT ![t] =
                  IF f.i >= Len(endpoint_names) - 1 THEN "aggregate"
                  ELSE "probe"]
    /\ UNCHANGED <<response_times, last_check_time, now, pass_seq, appended,
                   otherVars>>

\* monitor_services, app.py 116-122: one iteration of the loop, for thread t:
\* probe the next endpoint, store the result, add up its response time.
ProbeStep(t) ==
    /\ pc[t] = "probe"
    /\ \E out \in PassOutcomes :
        LET f == frame[t]
            service_name == endpoint_names[f.i]
            result == check_service_health(service_name,
                                           endpoint_url(service_name), out)
        IN  /\ service_status' = dict_set(service_status, service_name, result)
            /\ written_by' = dict_set(written_by, service_name, f.id)
            /\ frame' = [frame EXCEPT ![t] = count_result(f, result)]
            /\ pc' = [pc EXCEPT ![t] =
                  IF f.i = Len(endpoint_names) THEN "aggregate" ELSE "probe"]
    /\ UNCHANGED <<response_times, last_check_time, now, pass_seq, appended,
                   otherVars>>

\* monitor_services, app.py 125-127
Aggregate(t) ==
    /\ pc[t] = "aggregate"
    /\ LET f == frame[t]
       IN  /\ response_times' = window_after(f, response_times)
           /\ appended' =
                IF f.successful_checks > 0
                THEN Append(appended, round2_avg(f.total_response_time,
                                                 f.successful_checks))
                ELSE appended
    /\ pc' = [pc EXCEPT ![t] = "stamp"]
    /\ UNCHANGED <<service_status, last_check_time, now, frame, pass_seq,
                   written_by, otherVars>>

\* monitor_services, app.py 129, and the return to the caller: monitor_loop
\* goes to sleep (app.py 457), index goes on to render (app.py 317).
Stamp(t) ==
    /\ pc[t] = "stamp"
    /\ last_check_time' = now
    /\ pc' = [pc EXCEPT ![t] = IF t = BgThread THEN "sleep" ELSE "render"]
    /\ frame' = [frame EXCEPT ![t] =
                    IF t = BgThread
                    THEN [IdleFrame EXCEPT !.wake = now + CheckInterval]
                    ELSE IdleFrame]
    /\ UNCHANGED <<service_status, response_times, now, pass_seq, written_by,
                   appended, otherVars>>

\* monitor_loop: time.sleep returns (app.py 457, 460).
BgWake ==
    /\ pc[BgThread] = "sleep"
    /\ now >= frame[BgThread].wake
    /\ pc' = [pc EXCEPT ![BgThread] = "loop"]
    /\ frame' = [frame EXCEPT ![BgThread] = IdleFrame]
    /\ UNCHANGED <<service_status, response_times, last_check_time, now,
                   pass_seq, written_by, appended, otherVars>>

\* index, app.py 274: load_config raises; the request fails.
RequestConfigFault(h) ==
    /\ AtRest(h)
    /\ \E file \in ConfigFileStates : load_config_raises(file)
    /\ pc' = [pc EXCEPT ![h] = "failed"]
    /\ UNCHANGED <<service_status, response_times, last_check_time, now, frame,
                   pass_seq, written_by, appended, otherVars>>

\* index, app.py 274-279: the configuration shows no statuses (the default
\* configuration, or ShowStatuses false); the handler returns at once.
RequestNoStatuses(h) ==
    /\ AtRest(h)
    /\ \E file \in ConfigFileStates : ~load_config_raises(file)
    /\ pc' = [pc EXCEPT ![h] = "responded"]
    /\ UNCHANGED <<service_status, response_times, last_check_time, now, frame,
                   pass_seq, written_by, appended, otherVars>>

\* A plausible slip: the refresh already at 30 seconds (>= for >).
RequestRefreshAtThirty(h) ==
    /\ AtRest(h)
    /\ \E file \in ConfigFileStates : file = "valid"
    /\ LET current_time == now
       IN  current_time - last_check_time >= StaleAfter
    /\ \E file \in ConfigFileStates : ~load_config_raises(file)
    /\ EnterPass(h)
    /\ UNCHANGED <<service_status, response_times, last_check_time, now,
                   written_by, appended, otherVars>>

\* index, app.py 274-315 with ShowStatuses true and a stale last_check_time:
\* the handler calls monitor_services, whose get_health_endpoints loads the
\* configuration again.
RequestRefresh(h) ==
    /\ AtRest(h)
    /\ \E file \in ConfigFileStates : file = "valid"
    /\ LET current_time == now
       IN  current_time - last_check_time > StaleAfter
    /\ \E file \in ConfigFileStates : ~load_config_raises(file)
    /\ EnterPass(h)
    /\ UNCHANGED <<service_status, response_times, last_check_time, now,
                   written_by, appended, otherVars>>

\* index, app.py 315: as RequestRefresh, but load_config raises inside the
\* pass; nothing catches it and the request fails.
RequestRefreshFault(h) ==
    /\ AtRest(h)
    /\ \E file \in ConfigFileStates : file = "valid"
    /\ LET current_time == now
       IN  current_time - last_check_time > StaleAfter
    /\ pass_seq < MaxPasses
    /\ \E file \in ConfigFileStates : load_config_raises(file)
    /\ pass_seq' = pass_seq + 1
    /\ pc' = [pc EXCEPT ![h] = "failed"]
    /\ UNCHANGED <<service_status, response_times, last_check_time, now,
                   frame, written_by, appended, otherVars>>

\* index, app.py 274-314 with ShowStatuses true and a fresh last_check_time:
\* no pass.
RequestFresh(h) ==
    /\ AtRest(h)
    /\ \E file \in ConfigFileStates : file = "valid"
    /\ LET current_time == now
       IN  ~(current_time - last_check_time > StaleAfter)
    /\ pc' = [pc EXCEPT ![h] = "render"]
    /\ UNCHANGED <<service_status, response_times, last_check_time, now, frame,
                   pass_seq, written_by, appended, otherVars>>

\* index, app.py 317-369: the page is built from the shared state and the
\* handler returns.
Render(h) ==
    /\ pc[h] = "render"
    /\ pc' = [pc EXCEPT ![h] = "responded"]
    /\ UNCHANGED <<service_status, response_times, last_check_time, now, frame,
                   pass_seq, written_by, appended, otherVars>>

Init == MonitorInit /\ SeverityIdle /\ ProbeIdle /\ TimelineIdle

Next ==
    \/ Tick
    \/ BgStartPass
    \/ BgPassFault
    \/ BgWake
    \/ \E t \in Threads : ProbeStep(t)
    \/ \E t \in Threads : Aggregate(t)
    \/ \E t \in Threads : Stamp(t)
    \/ \E h \in Handlers : RequestConfigFault(h)
    \/ \E h \in Handlers : RequestNoStatuses(h)
    \/ \E h \in Handlers : RequestRefresh(h)
    \/ \E h \in Handlers : RequestRefreshFault(h)
    \/ \E h \in Handlers : RequestFresh(h)
    \/ \E h \in Handlers : Render(h)

Spec == Init /\ [][Next]_vars

NoPassInFlight == \A t \in Threads : ~InPass(t)

\* C1: once the passes that overlapped have completed, every entry of
\* service_status was stored by one and the same pass.
C1_OnePassPerSnapshot ==
    NoPassInFlight
        => \A a, b \in DOMAIN written_by : written_by[a] = written_by[b]

\* C2: at most one pass is in flight; a lazy-refresh pass never runs while a
\* background pass is in progress.
C2_SingleWriter == Cardinality({t \in Threads : InPass(t)}) <= 1

\* Some pass has run to its end (app.py 129 is the only assignment of
\* last_check_time, and the clock never reads 0).
SomePassCompleted == last_check_time # 0

\* The thread t is about to store the result of the endpoint name.
Storing(t, name) ==
    /\ pc[t] = "probe"
    /\ endpoint_names[frame[t].i] = name

\* C11: once a first pass has completed, service_status has exactly one
\* entry for each configured endpoint name and none for another name, each
\* a classified probe result; and an entry is what was stored last for its
\* endpoint: no step removes an entry, and an entry changes only in the
\* store of a pass for that very endpoint.
C11_OneEntryPerEndpoint ==
    /\ [](SomePassCompleted =>
            /\ DOMAIN service_status = Range(endpoint_names)
            /\ \A name \in DOMAIN service_status :
                    Classified(service_status[name]))
    /\ [][/\ DOMAIN service_status \subseteq DOMAIN service_status'
          /\ \A name \in DOMAIN service_status' :
                (name \notin DOMAIN service_status
                    \/ service_status'[name] # service_status[name]
                    \/ written_by'[name] # written_by[name])
                => \E t \in Threads :
                        /\ Storing(t, name)
                        /\ written_by'[name] = frame[t].id]_vars

\* C11's case: a first pass has completed and a later pass has overwritten
\* part of the entries.
C11_Witness ==
    /\ SomePassCompleted
    /\ \E t \in Threads : pc[t] = "probe" /\ frame[t].i = 3
    /\ \E a, b \in DOMAIN written_by : written_by[a] # written_by[b]

\* C13: a configuration file that is missing or malformed never makes a
\* caller of load_config fail: no request ends in a failure and no pass of
\* the background loop ends in its except clause.
C13_ConfigFaultsDegrade ==
    /\ [](\A h \in Handlers : pc[h] # "failed")
    /\ [][pc[BgThread] = "loop" => pc'[BgThread] # "sleep"]_vars

\* Three ways the request thread h can answer its next request.  It calls
\* monitor_services (which may raise at its load of the configuration):
StartsRefresh(h) ==
    /\ AtRest(h)
    /\ \/ pc'[h] = "probe"
       \/ /\ pc'[h] = "failed"
          /\ pass_seq' # pass_seq
          /\ \A t \in Threads \ {h} : pc'[t] = pc[t]

\* It goes on to build the page without a pass:
SkipsRefresh(h) == AtRest(h) /\ pc'[h] = "render"

\* It answers with the page that shows no statuses:
AnswersNoStatuses(h) == AtRest(h) /\ pc[h] # "responded" /\ pc'[h] = "responded"

\* index, app.py 312-314, on the values of the state: the time since the
\* last completed pass.
seconds_since_last_pass == now - last_check_time

\* C14 as stated: a request handled (and not failing) when more than 30
\* seconds have passed since last_check_time starts a pass, and one handled
\* within 30 seconds starts none.
C14_RefreshIffStale ==
    [][\A h \in Handlers :
        /\ (StartsRefresh(h) \/ SkipsRefresh(h) \/ AnswersNoStatuses(h))
                /\ seconds_since_last_pass > StaleAfter
            => StartsRefresh(h)
        /\ StartsRefresh(h) => seconds_since_last_pass > StaleAfter]_vars

\* C14, amended: a request whose configuration shows the statuses starts a
\* pass exactly if more than 30 seconds have passed since last_check_time
\* (strictly); a request answered with the show-nothing page starts none,
\* however stale the state is.
C14_RefreshIffStaleAndShown ==
    [][\A h \in Handlers :
        /\ StartsRefresh(h) => seconds_since_last_pass > StaleAfter
        /\ SkipsRefresh(h) => seconds_since_last_pass <= StaleAfter
        /\ AnswersNoStatuses(h) =>
                /\ pass_seq' = pass_seq
                /\ last_check_time' = last_check_time]_vars

\* C14's case: a request arrived exactly 30 seconds after the background
\* pass completed and goes on without a pass of its own.
C14_Witness ==
    /\ \E h \in Handlers : pc[h] = "render"
    /\ pc[BgThread] = "sleep"
    /\ pass_seq = 1
    /\ SomePassCompleted
    /\ seconds_since_last_pass = StaleAfter

\* The passes that are still running.
PassesInFlight == {frame[t].id : t \in {u \in Threads : InPass(u)}}

\* C15: the entries a request reads while it builds its page (app.py
\* 317-357: service_status[category_name] for each category, and all values
\* in calculate_uptime) come, once service_status holds every endpoint, from
\* one and the same pass, and that pass has completed.
C15_ConsistentSnapshot ==
    \A h \in Handlers :
        (pc[h] = "render" /\ DOMAIN service_status = Range(endpoint_names))
            => /\ \A a, b \in DOMAIN written_by :
                    written_by[a] = written_by[b]
               /\ \A a \in DOMAIN written_by :
                    written_by[a] \notin PassesInFlight

\* The thread t takes the step of app.py 125-127.
Aggregates(t) == pc[t] = "aggregate" /\ pc'[t] = "stamp"

\* The endpoints whose stored result carries a response time.
TimedEntries ==
    {name \in DOMAIN service_status :
        service_status[name].response_time # None}

RECURSIVE SumOfTimes(_)
SumOfTimes(S) ==
    IF S = {} THEN 0
    ELSE LET name == CHOOSE x \in S : TRUE
         IN  service_status[name].response_time + SumOfTimes(S \ {name})

\* v (hundredths of a millisecond) is the average of n times that add up to
\* total milliseconds, to the nearest hundredth.
IsAverage(v, total, n) ==
    LET diff == v * n - 100 * total
    IN  2 * (IF diff < 0 THEN 0 - diff ELSE diff) <= n

\* Every entry of service_status was stored by the pass of thread t.
OwnsAllEntries(t) ==
    /\ DOMAIN written_by = Range(endpoint_names)
    /\ \A name \in DOMAIN written_by : written_by[name] = frame[t].id

\* C16: a pass changes response_times once, at its end: it appends one
\* sample, the average of the response times its probes returned, if one of
\* them returned a time, and it leaves response_times as it is if none did;
\* nothing else changes response_times.  Where the entries of service_status
\* are all of this pass, the sample is the average of the times stored there.
C16_OneSamplePerPass ==
    [][/\ \A t \in Threads :
            Aggregates(t) =>
                LET f == frame[t]
                    n == Len(response_times)
                IN  /\ f.successful_checks = 0
                        => response_times' = response_times
                    /\ f.successful_checks > 0
                        => /\ Len(response_times') = n + 1
                           /\ SubSeq(response_times', 1, n) = response_times
                           /\ IsAverage(response_times'[n + 1],
                                        f.total_response_time,
                                        f.successful_checks)
                    /\ OwnsAllEntries(t)
                        => /\ f.successful_checks = Cardinality(TimedEntries)
                           /\ f.total_response_time = SumOfTimes(TimedEntries)
       /\ response_times' # response_times
            => \E t \in Threads : Aggregates(t)]_vars

\* C16's case: a pass with timed and untimed probes has appended its sample
\* after an earlier pass in which no probe returned a time had appended none.
C16_Witness ==
    /\ \E t \in Threads :
        /\ pc[t] = "stamp"
        /\ frame[t].id = 2
        /\ frame[t].successful_checks \in 1..3
        /\ OwnsAllEntries(t)
    /\ SomePassCompleted
    /\ Len(response_times) = 1

\* The call of monitor_services by thread t returns (app.py 129).
ReturnsFromPass(t) == pc[t] = "stamp" /\ pc'[t] # "stamp"

\* The call of monitor_services by thread t raises (app.py 112).
RaisesInPass(t) ==
    /\ pass_seq' # pass_seq
    /\ IF t = BgThread
       THEN pc[t] = "loop" /\ pc'[t] = "sleep"
       ELSE AtRest(t) /\ pc'[t] = "failed" /\ pc'[BgThread] = pc[BgThread]

\* C17: every call of monitor_services ends with last_check_time set to the
\* time of its end, whatever its probes returned.
C17_EveryPassStamps ==
    [][\A t \in Threads :
        (ReturnsFromPass(t) \/ RaisesInPass(t))
            => last_check_time' = now]_vars

\* C18: the background loop sleeps 30 seconds after a pass that returned and
\* 60 seconds after a pass that raised; it sleeps at no other point, and it
\* goes round to the next pass only when that sleep is over.
C18_IntervalSelection ==
    [][/\ ReturnsFromPass(BgThread)
            => /\ pc'[BgThread] = "sleep"
               /\ frame'[BgThread].wake = now + CheckInterval
       /\ RaisesInPass(BgThread)
            => frame'[BgThread].wake = now + ErrorInterval
       /\ (pc[BgThread] # "sleep" /\ pc'[BgThread] = "sleep")
            => ReturnsFromPass(BgThread) \/ RaisesInPass(BgThread)
       /\ (pc[BgThread] = "sleep" /\ pc'[BgThread] # "sleep")
            => /\ now >= frame[BgThread].wake
               /\ pc'[BgThread] = "loop"
       /\ pc'[BgThread] = "probe" => pc[BgThread] \in {"loop", "probe"}]_vars

\* C18's case: the first background pass raised at time 1000 and the loop
\* has slept its 60 seconds and started the next pass.
C18_Witness ==
    /\ pc[BgThread] = "probe"
    /\ frame[BgThread].id = 2
    /\ last_check_time = 0
    /\ \A h \in Handlers : pc[h] = "idle"
    /\ now >= StartTime + ErrorInterval

\* The pass of thread t has probed every endpoint and stored its result.
AllProbesStored(t) == frame[t].i = Len(endpoint_names) + 1

\* C20: within a pass the append to response_times and the assignment of
\* last_check_time come after the probes of all endpoints of that pass have
\* returned and their results have been stored: the pass runs through the
\* endpoints one by one, storing each result as it counts it, and
\* response_times and last_check_time change only in a pass that has been
\* through all of them.
C20_Barrier ==
    [][/\ \A t \in Threads :
            /\ (Aggregates(t) \/ ReturnsFromPass(t)) => AllProbesStored(t)
            /\ (pc[t] = "probe" /\ frame'[t] # frame[t])
                => LET name == endpoint_names[frame[t].i]
                   IN  /\ frame'[t].i = frame[t].i + 1
                       /\ written_by'[name] = frame[t].id
                       /\ Classified(service_status'[name])
            /\ (pc[t] = "probe" /\ pc'[t] = "probe")
                => frame'[t].i <= Len(endpoint_names)
       /\ (response_times' # response_times
                \/ last_check_time' # last_check_time)
            => \E t \in Threads :
                /\ Aggregates(t) \/ ReturnsFromPass(t)
                /\ AllProbesStored(t)]_vars

\* C20's case: a pass has stored its four results and appended its sample,
\* while another pass is still probing.
C20_Witness ==
    \E t, u \in Threads :
        /\ pc[t] = "stamp"
        /\ AllProbesStored(t)
        /\ frame[t].successful_checks > 0
        /\ pc[u] = "probe"
        /\ frame[u].i = 2

\* C21: a call of monitor_services that raises leaves service_status,
\* response_times and last_check_time as they were before the call; and a
\* call raises only at its start, at the load of the configuration: a pass
\* that has begun to probe runs to its end (the loop of the background
\* thread reaches its sleep from the last statement of the pass only, and a
\* request in a pass does not fail).
C21_FaultLeavesStateUntouched ==
    [][\A t \in Threads :
        /\ RaisesInPass(t)
            => /\ service_status' = service_status
               /\ response_times' = response_times
               /\ last_check_time' = last_check_time
               /\ written_by' = written_by
               /\ appended' = appended
        /\ InPass(t)
            => /\ pc'[t] # "failed"
               /\ pc'[t] \in {"sleep", "render"} => pc[t] = "stamp"
               /\ pc'[t] # "loop"]_vars

\* C21's case: the background pass after a completed pass raised, and the
\* loop sleeps its 60 seconds; service_status, response_times and
\* last_check_time are those of the completed pass.
C21_Witness ==
    /\ pc[BgThread] = "sleep"
    /\ pass_seq = 2
    /\ SomePassCompleted
    /\ frame[BgThread].wake = last_check_time + CheckInterval + ErrorInterval
    /\ DOMAIN service_status = Range(endpoint_names)
    /\ Len(response_times) = 1

(***************************************************************************)
(* The background thread on its own, for ever: monitor_loop (app.py        *)
(* 453-460) with the histories and the wall clock left out, so that the    *)
(* loop can be followed through any number of passes.  A sleep is a step   *)
(* that ends; frame.wake still records the interval that was chosen.       *)
(***************************************************************************)

SchedulerInit ==
    /\ service_status = EmptyDict
    /\ response_times = <<>>
    /\ last_check_time = 0
    /\ now = StartTime
    /\ pc = [t \in Threads |-> IF t = BgThread THEN "loop" ELSE "off"]
    /\ frame = [t \in Threads |-> IdleFrame]
    /\ pass_seq = 0
    /\ written_by = EmptyDict
    /\ appended = <<>>

\* monitor_loop, app.py 454-456, and monitor_services, app.py 112-114.
SchedStartPass ==
    /\ pc[BgThread] = "loop"
    /\ \E file \in ConfigFileStates : ~load_config_raises(file)
    /\ frame' = [frame EXCEPT ![BgThread] = [IdleFrame EXCEPT !.i = 1]]
    /\ pc' = [pc EXCEPT ![BgThread] = "probe"]
    /\ UNCHANGED <<service_status, response_times, last_check_time, now,
                   pass_seq, written_by, appended, otherVars>>

\* A plausible slip: no except clause, the fault ends the thread.
SchedPassFaultUncaught ==
    /\ pc[BgThread] = "loop"
    /\ \E file \in ConfigFileStates : load_config_raises(file)
    /\ pc' = [pc EXCEPT ![BgThread] = "dead"]
    /\ UNCHANGED <<service_status, response_times, last_check_time, now,
                   frame, pass_seq, written_by, appended, otherVars>>

\* monitor_loop, app.py 456, 458-460: the pass raises at its load of the
\* configuration; the fault is caught and the loop sleeps.
SchedPassFault ==
    /\ pc[BgThread] = "loop"
    /\ \E file \in ConfigFileStates : load_config_raises(file)
    /\ pc' = [pc EXCEPT ![BgThread] = "sleep"]
    /\ frame' = [frame EXCEPT ![BgThread] =
                    [IdleFrame EXCEPT !.wake = now + ErrorInterval]]
    /\ UNCHANGED <<service_status, response_times, last_check_time, now,
                   pass_seq, written_by, appended, otherVars>>

\* monitor_services, app.py 125-127
SchedAggregate ==
    /\ pc[BgThread] = "aggregate"
    /\ response_times' = window_after(frame[BgThread], response_times)
    /\ pc' = [pc EXCEPT ![BgThread] = "stamp"]
    /\ UNCHANGED <<service_status, last_check_time, now, frame, pass_seq,
                   written_by, appended, otherVars>>

\* monitor_loop: time.sleep returns (app.py 457, 460) and the loop goes round.
SchedWake ==
    /\ pc[BgThread] = "sleep"
    /\ pc' = [pc EXCEPT ![BgThread] = "loop"]
    /\ frame' = [frame EXCEPT ![BgThread] = IdleFrame]
    /\ UNCHANGED <<service_status, response_times, last_check_time, now,
                   pass_seq, written_by, appended, otherVars>>

SchedNext ==
    \/ SchedStartPass
    \/ SchedPassFault
    \/ ProbeStep(BgThread)
    \/ SchedAggregate
    \/ Stamp(BgThread)
    \/ SchedWake

\* The thread is scheduled fairly: a step of the loop that stays possible is
\* taken.
SchedulerSpecInit ==
    SchedulerInit /\ SeverityIdle /\ ProbeIdle /\ TimelineIdle

SpecScheduler ==
    SchedulerSpecInit /\ [][SchedNext]_vars /\ WF_vars(SchedNext)

\* C12: the background loop never ends: whatever the passes do, a fault in
\* every one of them included, a new pass is attempted again and again.
C12_PassesForever == []<><<SchedStartPass \/ SchedPassFault>>_vars

\* C12's case: the loop is about to go round after a pass that raised, with
\* completed passes before it.
C12_Witness ==
    /\ pc[BgThread] = "sleep"
    /\ frame[BgThread].wake = now + ErrorInterval
    /\ Len(response_times) >= 2

(***************************************************************************)
(* The window over many passes: passes run one after the other, each as a  *)
(* whole, until the window has been full for a while.                      *)
(***************************************************************************)

\* Bound: passes per behaviour of SpecWindow.
MaxWindowPasses == 150

\* The loop of monitor_services (app.py 116-122) run to its end with every
\* probe meeting out: the dict and the locals after it.
RECURSIVE run_probes(_, _, _)
run_probes(st, f, out) ==
    IF f.i > Len(endpoint_names) THEN [service_status |-> st, frame |-> f]
    ELSE LET service_name == endpoint_names[f.i]
             result == check_service_health(service_name,
                                            endpoint_url(service_name), out)
         IN  run_probes(dict_set(st, service_name, result),
                        count_result(f, result), out)

\* monitor_services (app.py 108-129) from its first line to its last, with
\* no other thread in between.  The probes of a pass are all answered, in
\* n + 1 ms when n samples have been appended so far (so that every sample
\* differs from the ones before it), or all find no connection.
WholePass ==
    /\ pass_seq < MaxWindowPasses
    /\ \E out \in {Response(200, Len(appended) + 1), Raises("ConnectionError")} :
        LET start == [id |-> pass_seq + 1, i |-> 1, total_response_time |-> 0,
                      successful_checks |-> 0, wake |-> 0]
            done == run_probes(service_status, start, out)
        IN  /\ service_status' = done.service_status
            /\ written_by' = [n \in DOMAIN done.service_status |-> pass_seq + 1]
            /\ response_times' = window_after(done.frame, response_times)
            /\ appended' =
                 IF done.frame.successful_checks > 0
                 THEN Append(appended,
                             round2_avg(done.frame.total_response_time,
                                        done.frame.successful_checks))
                 ELSE appended
    /\ pass_seq' = pass_seq + 1
    /\ last_check_time' = now
    /\ UNCHANGED <<now, pc, frame, otherVars>>

WindowSpecInit == MonitorIdle /\ SeverityIdle /\ ProbeIdle /\ TimelineIdle

SpecWindow == WindowSpecInit /\ [][WholePass]_vars

\* The last n elements of s, all of s when it has fewer.
LastN(s, n) == SubSeq(s, IF Len(s) > n THEN Len(s) - n + 1 ELSE 1, Len(s))

\* C7: response_times never holds more than 100 samples and always holds
\* the most recent samples appended, in the order of their appends: a full
\* window loses exactly its oldest sample to each append, so after 150
\* appends it holds the 51st to the 150th.
C7_WindowKeepsLast100 ==
    /\ Len(response_times) <= 100
    /\ response_times = LastN(appended, 100)
    /\ Len(appended) = 150 => response_times = SubSeq(appended, 51, 150)

\* C7 witness: 150 samples have been appended, the window is full and its
\* oldest sample is the 51st.
C7_Witness ==
    /\ Len(appended) = 150
    /\ Len(response_times) = 100
    /\ response_times[1] = appended[51]
    /\ response_times[1] # appended[1]
    /\ response_times[100] = appended[150]

(***************************************************************************)
(* Incident timeline: generate_90_day_history (app.py 151-261)             *)
(***************************************************************************)

HistoryDays == 90           \* app.py 239

\* Bound: entries of the incident log (PastIncidents and CurrentStatuses
\* together).
MaxLogEntries == 2

\* A naive local datetime: the day (counted from 1970-01-01) and the second
\* of the day.  The local zone is UTC.
DateTime(days, secs) == [days |-> days, secs |-> secs]

\* datetime.fromtimestamp (app.py 163, 202)
fromtimestamp(ts) == DateTime(ts \div 86400, ts % 86400)

\* date - timedelta(days=i) (app.py 240)
minus_days(dt, i) == DateTime(dt.days - i, dt.secs)

\* int(date.timestamp()) (app.py 250, 258)
timestamp(dt) == dt.days * 86400 + dt.secs

\* strftime('%Y-%m-%d') (app.py 164, 203, 241): the year, month and day of
\* the proleptic Gregorian calendar, here as <<year, month, day>>.
strftime_ymd(dt) ==
    LET z == dt.days + 719468
        era == z \div 146097
        doe == z - era * 146097
        yoe == (doe - doe \div 1460 + doe \div 36524 - doe \div 146096) \div 365
        doy == doe - (365 * yoe + yoe \div 4 - yoe \div 100)
        mp == (5 * doy + 2) \div 153
        d == doy - (153 * mp + 2) \div 5 + 1
        m == IF mp < 10 THEN mp + 3 ELSE mp - 9
        y == yoe + era * 400 + (IF m <= 2 THEN 1 ELSE 0)
    IN  <<y, m, d>>

\* app.py 167-182 and 206-221: the status of one log entry.
incident_status(ids) ==
    IF 4 \in Range(ids) THEN "major"
    ELSE IF 3 \in Range(ids) THEN "partial"
    ELSE IF 2 \in Range(ids) THEN "degraded"
    ELSE IF 5 \in Range(ids) THEN "maintenance"
    ELSE "investigating"

\* A plausible slip: an entry whose day already lists one of its severity is
\* left out.
add_incident_dedup(incident_map, entry, fixed_at) ==
    LET date_str == strftime_ymd(fromtimestamp(entry.StartedAt))
        status == incident_status(entry.StatusID)
        day_data == IF date_str \in DOMAIN incident_map
                    THEN incident_map[date_str]
                    ELSE [status |-> status, incidents |-> <<>>]
        summary == [title |-> entry.StatusTitle, type |-> status,
                    started_at |-> entry.StartedAt, fixed_at |-> fixed_at]
    IN  IF \E j \in DOMAIN day_data.incidents :
                day_data.incidents[j].type = status
        THEN incident_map
        ELSE dict_set(incident_map, date_str,
                      [day_data EXCEPT !.incidents = Append(@, summary)])

\* app.py 184-197 and 223-236: one more entry in incident_map; fixed_at is
\* the entry's FixedAt for a past incident and None for a current status.
\* (The description and the author are copied like the title.)
add_incident(incident_map, entry, fixed_at) ==
    LET date_str == strftime_ymd(fromtimestamp(entry.StartedAt))
        status == incident_status(entry.StatusID)
        day_data == IF date_str \in DOMAIN incident_map
                    THEN incident_map[date_str]
                    ELSE [status |-> status, incidents |-> <<>>]
        summary == [title |-> entry.StatusTitle, type |-> status,
                    started_at |-> entry.StartedAt, fixed_at |-> fixed_at]
    IN  dict_set(incident_map, date_str,
                 [day_data EXCEPT !.incidents = Append(@, summary)])

\* app.py 161-197: the loop over PastIncidents, from entry i on.
RECURSIVE index_past(_, _, _)
index_past(incident_map, past, i) ==
    IF i > Len(past) THEN incident_map
    ELSE index_past(IF Truthy(past[i].StartedAt)
                    THEN add_incident(incident_map, past[i], past[i].FixedAt)
                    ELSE incident_map,
                    past, i + 1)

\* app.py 200-236: the loop over CurrentStatuses, from entry i on.
RECURSIVE index_current(_, _, _)
index_current(incident_map, current, i) ==
    IF i > Len(current) THEN incident_map
    ELSE index_current(IF ~Truthy(current[i].FixedAt) /\ Truthy(current[i].StartedAt)
                       THEN add_incident(incident_map, current[i], None)
                       ELSE incident_map,
                       current, i + 1)

\* A plausible slip: the list returned newest first.
not_reversed(list) == list

\* list(reversed(history)) (app.py 261)
reversed(list) == [k \in 1..Len(list) |-> list[Len(list) + 1 - k]]

\* app.py 151-261
generate_90_day_history(cfg, today_dt) ==
    LET incident_map ==
            index_current(index_past(EmptyDict, cfg.PastIncidents, 1),
                          cfg.CurrentStatuses, 1)
        day(i) ==
            LET date == minus_days(today_dt, i)
                date_str == strftime_ymd(date)
            IN  IF date_str \in DOMAIN incident_map
                THEN [date |-> date_str,
                      status |-> incident_map[date_str].status,
                      incidents |-> incident_map[date_str].incidents,
                      timestamp |-> timestamp(date)]
                ELSE [date |-> date_str, status |-> "operational",
                      incidents |-> <<>>, timestamp |-> timestamp(date)]
    IN  reversed([k \in 1..HistoryDays |-> day(k - 1)])

\* The inputs: datetime.now() is 2024-03-01 00:00:00 (the 90 days hold a
\* 29 February and a turn of the year) or 2025-01-15 23:59:59.
TodayChoices == {DateTime(19783, 0), DateTime(20103, 86399)}

\* StartedAt of a log entry: absent, now, the first second of the oldest day
\* of the timeline, or the last second of the day before it.
StartedAtChoices(today_dt) ==
    {None,
     timestamp(today_dt),
     (today_dt.days - (HistoryDays - 1)) * 86400,
     (today_dt.days - HistoryDays) * 86400 + 86399}

StatusIDChoices == {<<>>, <<5, 2>>, <<4, 1>>}

\* A past incident is a resolved one; a current status may carry a FixedAt.
PastEntries(today_dt) ==
    [StartedAt : StartedAtChoices(today_dt),
     FixedAt : {timestamp(today_dt)},
     StatusID : StatusIDChoices]

CurrentEntries(today_dt) ==
    [StartedAt : StartedAtChoices(today_dt),
     FixedAt : {None, timestamp(today_dt)},
     StatusID : StatusIDChoices]

\* The entries of a list are told apart by their titles.
Titled(list, entries) ==
    [i \in 1..Len(entries) |->
        [StatusTitle |-> <<list, i>>, StartedAt |-> entries[i].StartedAt,
         FixedAt |-> entries[i].FixedAt, StatusID |-> entries[i].StatusID]]

TimelineInit ==
    /\ today \in TodayChoices
    /\ \E np \in 0..MaxLogEntries : \E nc \in 0..(MaxLogEntries - np) :
        \E past \in [1..np -> PastEntries(today)] :
        \E current \in [1..nc -> CurrentEntries(today)] :
            config = [PastIncidents |-> Titled("past", past),
                      CurrentStatuses |-> Titled("current", current)]
    /\ history = <<>>

\* One call history_data = generate_90_day_history() (app.py 360).
BuildTimeline ==
    /\ history = <<>>
    /\ history' = generate_90_day_history(config, today)
    /\ UNCHANGED <<config, today, monitorVars, severityVars, probeVars>>

TimelineSpecInit == TimelineInit /\ MonitorIdle /\ SeverityIdle /\ ProbeIdle

SpecTimeline == TimelineSpecInit /\ [][BuildTimeline]_vars

\* The class names of the timeline for the classes of get_status_color.
TimelineClass(class) ==
    CASE class = "major-outage" -> "major"
      [] class = "partial-outage" -> "partial"
      [] OTHER -> class

LeapYear(y) == (y % 4 = 0 /\ y % 100 # 0) \/ y % 400 = 0

DaysInMonth(y, m) ==
    IF m = 2 THEN (IF LeapYear(y) THEN 29 ELSE 28)
    ELSE IF m \in {4, 6, 9, 11} THEN 30 ELSE 31

\* The calendar day after <<y, m, d>>.
NextCalendarDay(date) ==
    LET y == date[1]
        m == date[2]
        d == date[3]
    IN  IF d < DaysInMonth(y, m) THEN <<y, m, d + 1>>
        ELSE IF m < 12 THEN <<y, m + 1, 1>>
        ELSE <<y + 1, 1, 1>>

DateBefore(a, b) ==
    \/ a[1] < b[1]
    \/ a[1] = b[1] /\ a[2] < b[2]
    \/ a[1] = b[1] /\ a[2] = b[2] /\ a[3] < b[3]

\* The log entries the timeline can date: the past incidents with a
\* StartedAt and the unresolved current statuses with a StartedAt.
Dated(list) == {i \in DOMAIN list : Truthy(list[i].StartedAt)}
EntryDate(entry) == strftime_ymd(fromtimestamp(entry.StartedAt))

\* The status ids of all entries of the log whose StartedAt lies on date.
IdsOn(date) ==
    UNION ({Range(config.PastIncidents[i].StatusID) :
                i \in {j \in Dated(config.PastIncidents) :
                        EntryDate(config.PastIncidents[j]) = date}}
           \cup {Range(config.CurrentStatuses[i].StatusID) :
                i \in {j \in Dated(config.CurrentStatuses) :
                        /\ ~Truthy(config.CurrentStatuses[j].FixedAt)
                        /\ EntryDate(config.CurrentStatuses[j]) = date}})

\* C8: the timeline has exactly 90 records; their dates are consecutive
\* calendar days, the last one the current date, oldest first, none twice.
C8_NinetyConsecutiveDays ==
    history # <<>>
        => /\ Len(history) = 90
           /\ history[90].date = strftime_ymd(today)
           /\ \A k \in 1..89 :
                /\ history[k + 1].date = NextCalendarDay(history[k].date)
                /\ DateBefore(history[k].date, history[k + 1].date)
           /\ Cardinality({history[k].date : k \in 1..90}) = 90

\* C8 witness: a timeline built on 2024-03-01 from a log with two entries;
\* it starts on 2023-12-03 and holds the 29 February.
C8_Witness ==
    /\ Len(history) = 90
    /\ Len(config.PastIncidents) + Len(config.CurrentStatuses) = 2
    /\ history[1].date = <<2023, 12, 3>>
    /\ history[89].date = <<2024, 2, 29>>
    /\ history[90].date = <<2024, 3, 1>>

\* C9: a day with several entries has the severity that the ranking of the
\* resolver gives for the union of the status ids of its entries.
C9_SeverityOfTheUnion ==
    history # <<>>
        => \A k \in 1..Len(history) :
            Len(history[k].incidents) >= 2
                => history[k].status =
                       TimelineClass(FirstRanked(IdsOn(history[k].date), 1))

\* C10: with a single dated incident in the log, inside the 90 days, its
\* day has exactly one summary and the severity the ranking of the resolver
\* gives for its status ids; the other 89 days are operational and empty.
C10_SingleIncidentDay ==
    (/\ history # <<>>
     /\ Len(config.CurrentStatuses) = 0
     /\ Len(config.PastIncidents) = 1
     /\ Truthy(config.PastIncidents[1].StartedAt)
     /\ \E k \in 1..Len(history) :
            history[k].date = EntryDate(config.PastIncidents[1]))
        => \A k \in 1..Len(history) :
            IF history[k].date = EntryDate(config.PastIncidents[1])
            THEN /\ Len(history[k].incidents) = 1
                 /\ history[k].status =
                        TimelineClass(FirstRanked(
                            Range(config.PastIncidents[1].StatusID), 1))
            ELSE /\ history[k].incidents = <<>>
                 /\ history[k].status = "operational"

\* All entries of the log, of both lists.
LogEntries == Range(config.PastIncidents) \cup Range(config.CurrentStatuses)

\* The summaries of the entry in the record of day k of the timeline.
SummariesOf(entry, k) ==
    {j \in DOMAIN history[k].incidents :
        /\ history[k].incidents[j].title = entry.StatusTitle
        /\ history[k].incidents[j].started_at = entry.StartedAt
        /\ history[k].incidents[j].type = incident_status(entry.StatusID)}

\* The entries the timeline indexes (app.py 162, 201): a past incident with
\* a StartedAt, a current status with a StartedAt and without a FixedAt.
Indexed(entry) ==
    /\ Truthy(entry.StartedAt)
    /\ \/ entry \in Range(config.PastIncidents)
       \/ ~Truthy(entry.FixedAt)

\* C19 as stated: an entry without StartedAt has no summary in any record;
\* an entry with a StartedAt has exactly one summary in the record of its
\* day, if the timeline has that day, and none in any other record; every
\* summary of a record is the summary of an entry of that day.
C19_OneSummaryPerDatedEntry ==
    history # <<>>
        => /\ \A entry \in LogEntries : \A k \in DOMAIN history :
                Cardinality(SummariesOf(entry, k)) =
                    IF Truthy(entry.StartedAt)
                          /\ history[k].date = EntryDate(entry)
                    THEN 1 ELSE 0
           /\ \A k \in DOMAIN history : \A j \in DOMAIN history[k].incidents :
                \E entry \in LogEntries : j \in SummariesOf(entry, k)

\* C19, amended: the same for the entries the timeline indexes; a current
\* status that carries a FixedAt has, like an entry without StartedAt, no
\* summary in any record.
C19_OneSummaryPerIndexedEntry ==
    history # <<>>
        => /\ \A entry \in LogEntries : \A k \in DOMAIN history :
                Cardinality(SummariesOf(entry, k)) =
                    IF Indexed(entry) /\ history[k].date = EntryDate(entry)
                    THEN 1 ELSE 0
           /\ \A k \in DOMAIN history : \A j \in DOMAIN history[k].incidents :
                \E entry \in LogEntries :
                    Indexed(entry) /\ j \in SummariesOf(entry, k)

\* C19's case: a record lists two entries of one day and one severity.
C19_Witness ==
    /\ history # <<>>
    /\ \E k \in DOMAIN history :
        /\ Len(history[k].incidents) = 2
        /\ history[k].incidents[1].type = history[k].incidents[2].type
        /\ history[k].incidents[1].title # history[k].incidents[2].title

====
